---- MODULE Spec2Model ----
(***************************************************************************)
(* Brahma Muhurat calculator: the facade (src/index.js), the muhurat core  *)
(* (src/core/muhurat.js), the sunrise resolver and the refraction model    *)
(* (src/core/astronomical.js, src/core/refraction.js) and the validation   *)
(* helpers (src/utils/geo.js, src/utils/time.js).                          *)
(*                                                                         *)
(* Instants are integers: milliseconds counted from 00:00 UTC of the       *)
(* calendar day the calculation is for.  Angles, pressures and             *)
(* temperatures are fixed-point integers (see each operator).  The two     *)
(* JavaScript values that are not ordinary numbers, NaN (also the time     *)
(* value of an Invalid Date) and undefined, are two reserved integers.     *)
(***************************************************************************)
EXTENDS Integers, Sequences, FiniteSets, TLC

\* ------------------------------------------------------------------------
\* JavaScript values and arithmetic
\* ------------------------------------------------------------------------
NaN == 0 - 999999999
Undefined == 0 - 999999998

\* typeof x === 'number' (NaN is of number type, undefined is not)
IsNumberType(x) == x # Undefined

\* isNaN(x): ToNumber(undefined) is NaN
IsNaN(x) == x = NaN \/ x = Undefined

\* a + b, a - b on numbers: NaN is absorbing
JsAdd(a, b) == IF IsNaN(a) \/ IsNaN(b) THEN NaN ELSE a + b
JsSub(a, b) == IF IsNaN(a) \/ IsNaN(b) THEN NaN ELSE a - b

\* a < b, a > b: every comparison with NaN is false
JsLt(a, b) == ~IsNaN(a) /\ ~IsNaN(b) /\ a < b
JsGt(a, b) == ~IsNaN(a) /\ ~IsNaN(b) /\ a > b

\* truncation toward zero of n / d (d > 0)
TruncDiv(n, d) == IF n >= 0 THEN n \div d ELSE 0 - ((0 - n) \div d)

\* Math.round(n / d) for d > 0: round half up; NaN stays NaN
MathRoundDiv(n, d) == IF IsNaN(n) THEN NaN ELSE (2 * n + d) \div (2 * d)

\* params.x with a default: `x = dflt` in a destructuring pattern
WithDefault(x, dflt) == IF x = Undefined THEN dflt ELSE x

\* obj.name: a property the object does not have reads as undefined
GetProp(obj, name) == IF name \in DOMAIN obj THEN obj[name] ELSE Undefined

\* ------------------------------------------------------------------------
\* Dates.  A date string is [sep, parts]: three zero-padded numeric groups
\* joined by sep ("2024-02-18" is sep "-" and parts <<2024, 2, 18>>); the
\* separator "?" is a string that holds no date at all ("invalid-date").
\* A parsed date is [valid, y, m, d].
\* ------------------------------------------------------------------------
InvalidDate == [valid |-> FALSE, y |-> 0, m |-> 0, d |-> 0]
MkDate(y, m, d) == [valid |-> TRUE, y |-> y, m |-> m, d |-> d]

IsLeap(y) == (y % 4 = 0 /\ y % 100 # 0) \/ y % 400 = 0
DaysInMonth(y, m) ==
  IF m = 2 THEN (IF IsLeap(y) THEN 29 ELSE 28)
  ELSE IF m \in {4, 6, 9, 11} THEN 30 ELSE 31
ValidYMD(y, m, d) == y >= 1000 /\ y <= 9999 /\ m \in 1..12 /\ d >= 1 /\ d <= DaysInMonth(y, m)

RECURSIVE DaysBefore(_, _)
DaysBefore(y, m) == IF m <= 1 THEN 0 ELSE DaysInMonth(y, m - 1) + DaysBefore(y, m - 1)
DayOfYear(dt) == IF dt.valid THEN DaysBefore(dt.y, dt.m) + dt.d ELSE NaN

\* moment(input, format, true): strict parsing against one format
\* variant: MM/DD/YYYY is tried before DD/MM/YYYY
StrictFormats_MonthFirst == <<"YYYY-MM-DD", "YYYY-MM-DD HH:mm:ss", "MM/DD/YYYY", "DD/MM/YYYY", "DD-MM-YYYY", "YYYY/MM/DD">>
StrictFormats == <<"YYYY-MM-DD", "YYYY-MM-DD HH:mm:ss", "DD/MM/YYYY", "MM/DD/YYYY", "DD-MM-YYYY", "YYYY/MM/DD">>
StrictParse(input, format) ==
  LET p == input.parts
      try(sep, y, m, d) == IF input.sep = sep /\ ValidYMD(y, m, d) THEN MkDate(y, m, d) ELSE InvalidDate
  IN  CASE format = "YYYY-MM-DD" -> try("-", p[1], p[2], p[3])
        [] format = "YYYY-MM-DD HH:mm:ss" -> InvalidDate
        [] format = "DD/MM/YYYY" -> try("/", p[3], p[2], p[1])
        [] format = "MM/DD/YYYY" -> try("/", p[3], p[1], p[2])
        [] format = "DD-MM-YYYY" -> try("-", p[3], p[2], p[1])
        [] format = "YYYY/MM/DD" -> try("/", p[1], p[2], p[3])
        [] OTHER -> InvalidDate

\* moment(input) on a string: the ISO 8601 pattern when the string starts
\* with a four-digit year and dashes, else the engine's Date constructor,
\* which reads year/month/day and month/day/year and nothing else here
MomentParse(input) ==
  LET p == input.parts
  IN  IF input.sep = "-" /\ p[1] >= 1000
      THEN (IF ValidYMD(p[1], p[2], p[3]) THEN MkDate(p[1], p[2], p[3]) ELSE InvalidDate)
      ELSE IF input.sep \in {"-", "/"} /\ p[3] >= 1000 /\ ValidYMD(p[3], p[1], p[2])
      THEN MkDate(p[3], p[1], p[2])
      ELSE IF input.sep = "/" /\ p[1] >= 1000 /\ ValidYMD(p[1], p[2], p[3])
      THEN MkDate(p[1], p[2], p[3])
      ELSE InvalidDate

\* parseDateInput on a string: [threw, date]
RECURSIVE TryFormats(_, _)
\* if (parsed.isValid()) return parsed, else go on
FirstValid(parsed, rest) == IF parsed.valid THEN parsed ELSE rest
TryFormats(input, i) ==
  IF i > Len(StrictFormats) THEN InvalidDate
  ELSE FirstValid(StrictParse(input, StrictFormats[i]), TryFormats(input, i + 1))
\* the strict formats first, then moment(input), then the throw
ParsedOrThrew(strict, loose) ==
  IF strict.valid THEN [threw |-> FALSE, date |-> strict]
  ELSE IF loose.valid THEN [threw |-> FALSE, date |-> loose]
  ELSE [threw |-> TRUE, date |-> InvalidDate]
parseDateInput(input) == ParsedOrThrew(TryFormats(input, 1), MomentParse(input))

\* ------------------------------------------------------------------------
\* Timezones
\* ------------------------------------------------------------------------
KnownZones == {"Asia/Kolkata", "Europe/Oslo"}
\* moment.tz.zone(name) is not null
ZoneExists(tz) == tz \in KnownZones
\* moment.tz.names()
getSupportedTimezones == KnownZones

\* ------------------------------------------------------------------------
\* Errors: a message is the sequence of its parts
\* ------------------------------------------------------------------------
NoError == <<>>

\* variant: the boundaries themselves are rejected
validateCoordinates_OpenInterval(latitude, longitude) ==
  IF ~IsNumberType(latitude) \/ ~IsNumberType(longitude)
  THEN <<"Latitude and longitude must be numbers">>
  ELSE IF ~JsGt(latitude, 0 - 90) \/ ~JsLt(latitude, 90)
  THEN <<"Latitude must be between -90 and 90 degrees">>
  ELSE IF ~JsGt(longitude, 0 - 180) \/ ~JsLt(longitude, 180)
  THEN <<"Longitude must be between -180 and 180 degrees">>
  ELSE NoError

\* validateCoordinates: the message it throws, NoError when it returns
validateCoordinates(latitude, longitude) ==
  IF ~IsNumberType(latitude) \/ ~IsNumberType(longitude)
  THEN <<"Latitude and longitude must be numbers">>
  ELSE IF JsLt(latitude, 0 - 90) \/ JsGt(latitude, 90)
  THEN <<"Latitude must be between -90 and 90 degrees">>
  ELSE IF JsLt(longitude, 0 - 180) \/ JsGt(longitude, 180)
  THEN <<"Longitude must be between -180 and 180 degrees">>
  ELSE IF IsNaN(latitude) \/ IsNaN(longitude)
  THEN <<"Latitude and longitude must be valid numbers">>
  ELSE NoError

\* validateTimezone
validateTimezone(timezone) ==
  IF timezone = ""
  THEN <<"Timezone must be a non-empty string">>
  ELSE IF ~ZoneExists(timezone)
  THEN <<"Invalid timezone: ", timezone>>
  ELSE NoError

\* MuhuratCalculator._validateInputs
\* the first of the messages thrown in sequence
FirstError(first, rest) == IF first # NoError THEN first ELSE rest
MuhuratValidateInputs(params) ==
  FirstError(validateCoordinates(params.latitude, params.longitude),
    FirstError(validateTimezone(params.timezone),
      IF ~MomentParse(params.date).valid
      THEN <<"Invalid date format. Use YYYY-MM-DD or valid date string">>
      ELSE NoError))

\* BrahmaMuhuratCalculator._validateCalculationParams
ValidateCalculationParams(params) ==
  IF ~IsNumberType(params.latitude) \/ ~IsNumberType(params.longitude)
  THEN <<"Latitude and longitude are required and must be numbers">>
  ELSE IF params.timezone = ""
  THEN <<"Timezone is required and must be a string">>
  ELSE FirstError(validateCoordinates(params.latitude, params.longitude),
         IF parseDateInput(params.date).threw
         THEN <<"Invalid date: ", "Invalid date format: ", "input">>
         ELSE IF params.timezone \notin getSupportedTimezones
         THEN <<"Unsupported timezone: ", params.timezone>>
         ELSE NoError)

\* ------------------------------------------------------------------------
\* Trigonometry and roots on the inputs of the model (tables of the values
\* Math.cos, Math.tan, Math.sqrt and Math.exp return, in fixed point)
\* ------------------------------------------------------------------------
Abs(x) == IF x < 0 THEN 0 - x ELSE x
Max(a, b) == IF a >= b THEN a ELSE b

\* 1000 * cos(deg degrees)
CosMilli(deg) ==
  LET a == Abs(deg)
  IN  CASE a = 0 -> 1000 [] a = 25 -> 906 [] a = 45 -> 707 [] a = 60 -> 500
        [] a = 66 -> 407 [] a = 70 -> 342 [] a = 89 -> 17 [] a = 90 -> 0
        [] OTHER -> IF a < 25 THEN 950 ELSE IF a < 60 THEN 700 ELSE 200

\* floor(sqrt(n)) for 0 <= n <= 9000
ISqrt(n) == CHOOSE r \in 0..95 : r * r <= n /\ n < (r + 1) * (r + 1)

\* ------------------------------------------------------------------------
\* RefractionCalculator.  Altitudes are millidegrees, pressures are
\* hundredths of a hPa, temperatures hundredths of a degree Celsius,
\* humidity is a percentage, refraction is in thousandths of an arc-minute.
\* ------------------------------------------------------------------------
DefaultPressure == 101325
DefaultTemperature == 1500
DefaultHumidity == 50

\* Math.max(altitude, 0.01)
ClampAltitude(altitude) == Max(altitude, 10)

\* 1000 / tan((h + 7.31 / (h + 4.4)) degrees) at the clamped altitude h
BennettCot(h) ==
  CASE h = 10 -> 34349 [] h = 5000 -> 9883 [] h = 45000 -> 995 [] h = 90000 -> 0 - 1
    [] OTHER -> IF h < 5000 THEN 18000 ELSE IF h < 45000 THEN 3000 ELSE 300

\* 1000 * 1.02 / tan((h + 10.3 / (h + 5.11)) degrees) at the clamped altitude h
SaemundssonCot(h) ==
  CASE h = 10 -> 28895 [] h = 5000 -> 9674 [] h = 45000 -> 1013 [] h = 90000 -> 0 - 2
    [] OTHER -> IF h < 5000 THEN 17000 ELSE IF h < 45000 THEN 3000 ELSE 300

\* 1000000 * tan(PI / 2 - (h + 90) degrees) = -1000000 * tan(h degrees)
TanComplementMicro(h) ==
  CASE h = 10 -> 0 - 175 [] h = 5000 -> 0 - 87489 [] h = 45000 -> 0 - 1000000
    [] OTHER -> 0 - 500000

\* the pressure and the temperature corrections applied to a refraction r
AtmosphericScale(r, pressure, temperature) ==
  LET pressureCorrection == (pressure * 10000) \div 101325
      temperatureCorrection == (28315 * 10000) \div (27315 + temperature)
  IN  MathRoundDiv(MathRoundDiv(r * pressureCorrection, 10000) * temperatureCorrection, 10000)

\* _saturatedVaporPressure (Magnus formula), in thousandths of a hPa
SaturatedVaporPressure(temperature) ==
  CASE temperature = 1500 -> 17053 [] temperature = 0 -> 6108
    [] temperature = 0 - 5000 -> 61 [] temperature = 5000 -> 123364
    [] OTHER -> IF temperature < 0 THEN 2000 ELSE 30000

\* _calculateRefractiveIndex: (n - 1) in units of 1e-7
RefractivityE7(pressure, temperature, humidity) ==
  LET T == temperature + 27315
      nDry == (pressure * 2876) \div T
      waterVaporPressure == (humidity * SaturatedVaporPressure(temperature)) \div 100
      nWater == (waterVaporPressure * 1792) \div T
  IN  nDry + nWater

\* _extrapolateRefraction, _bennettRefraction, _saemundssonRefraction,
\* _rigorousRefraction and calculateRefraction call one another
RECURSIVE calculateRefraction(_, _, _, _, _)

\* _extrapolateRefraction: calculateRefraction(0) takes the default
\* pressure, temperature and humidity
ExtrapolateRefraction(model, altitude) ==
  LET horizonRefraction == calculateRefraction(model, 0, DefaultPressure, DefaultTemperature, DefaultHumidity)
      gradient == TruncDiv(horizonRefraction, 34)
  IN  horizonRefraction + TruncDiv(altitude * gradient, 1000)

BennettRefraction(model, altitude, pressure, temperature) ==
  IF altitude < 0 - 2000 THEN ExtrapolateRefraction(model, altitude)
  ELSE AtmosphericScale(BennettCot(ClampAltitude(altitude)), pressure, temperature)

SaemundssonRefraction(model, altitude, pressure, temperature) ==
  IF altitude < 0 - 2000 THEN ExtrapolateRefraction(model, altitude)
  ELSE AtmosphericScale(SaemundssonCot(ClampAltitude(altitude)), pressure, temperature)

RigorousRefraction(model, altitude, pressure, temperature, humidity) ==
  IF altitude < 0 - 2000 THEN ExtrapolateRefraction(model, altitude)
  ELSE LET n1 == RefractivityE7(pressure, temperature, humidity)
           tanTerm == TanComplementMicro(ClampAltitude(altitude))
           \* (n - 1) * tan(..) * 180 / PI * 60, in thousandths of an arc-minute
           refraction == TruncDiv(TruncDiv(n1 * TruncDiv(tanTerm, 100), 10000) * 3438, 10000)
       IN  Max(refraction, 0)

calculateRefraction(model, apparentAltitude, pressure, temperature, humidity) ==
  CASE model = "rigorous" -> RigorousRefraction(model, apparentAltitude, pressure, temperature, humidity)
    [] model = "saemundsson" -> SaemundssonRefraction(model, apparentAltitude, pressure, temperature)
    [] OTHER -> BennettRefraction(model, apparentAltitude, pressure, temperature)

\* calculateSunriseRefraction: refraction at the geometric depression -0.833
calculateSunriseRefraction(model, pressure, temperature, humidity) ==
  calculateRefraction(model, 0 - 833, pressure, temperature, humidity)

\* _calculateSolarDeclination: 1000 * cos(declination) for the day of the
\* year of the instant; NaN for an Invalid Date
CosDeclinationMilli(dayOfYear) ==
  IF IsNaN(dayOfYear) THEN NaN
  ELSE IF dayOfYear >= 80 /\ dayOfYear <= 266
  THEN (IF dayOfYear >= 150 /\ dayOfYear <= 196 THEN 917 ELSE 960)
  ELSE (IF dayOfYear >= 330 \/ dayOfYear <= 15 THEN 920 ELSE 977)

\* refractionToTimeCorrection, in milliseconds:
\* (refraction / 60) / (360 / 86400) * cos(dec) * cos(lat) seconds
refractionToTimeCorrection(refraction, latitude, cosDeclination) ==
  IF IsNaN(cosDeclination) THEN NaN
  ELSE TruncDiv(TruncDiv(refraction * 4 * cosDeclination, 1000) * CosMilli(latitude), 1000)

\* applySunriseCorrection: new Date(sunriseTime.getTime() - timeCorrection * 1000)
applySunriseCorrection(model, sunriseTime, dayOfYear, latitude, pressure, temperature, humidity) ==
  LET declination == CosDeclinationMilli(IF IsNaN(sunriseTime) THEN NaN ELSE dayOfYear)
      refraction == calculateSunriseRefraction(model, pressure, temperature, humidity)
      timeCorrection == refractionToTimeCorrection(refraction, latitude, declination)
  IN  JsSub(sunriseTime, timeCorrection)

\* ------------------------------------------------------------------------
\* The two ephemeris libraries, as the calculator sees them.  Latitudes and
\* longitudes are whole degrees, elevations whole metres.
\* ------------------------------------------------------------------------
\* half the length of the day in minutes; NaN when the sun neither rises
\* nor sets on that day (beyond the polar circle)
HalfDayMinutes(latitude, dayOfYear) ==
  LET a == Abs(latitude)
      northSummer == dayOfYear >= 80 /\ dayOfYear <= 266
      summer == IF latitude >= 0 THEN northSummer ELSE ~northSummer
  IN  IF IsNaN(dayOfYear) \/ a >= 90 THEN NaN
      ELSE IF a >= 67 THEN (IF summer THEN NaN ELSE 240)
      ELSE IF a >= 46 THEN (IF summer THEN 500 ELSE 250)
      ELSE IF a >= 11 THEN (IF summer THEN 410 ELSE 337)
      ELSE 363

SolarNoon(longitude) == 43200000 - longitude * 240000

\* SunCalc.getTimes(date, latitude, longitude): sunrise and sunset are
\* Invalid Dates when there is no such event or the date is invalid
SunTimesAround(half, noon) ==
  IF IsNaN(half) THEN [sunrise |-> NaN, sunset |-> NaN]
  ELSE [sunrise |-> noon - half * 60000 + 417, sunset |-> noon + half * 60000 + 873]
SunCalcGetTimes(dt, latitude, longitude) ==
  SunTimesAround(HalfDayMinutes(latitude, DayOfYear(dt)), SolarNoon(longitude))

\* The Astronomy Engine module as loaded: whether its Astronomy export
\* resolved, and by how many milliseconds its rise instants differ from the
\* sunrise of SunCalc
EngineSkew == 1250
MissingEngine == [available |-> FALSE, skew |-> 0]
LoadedEngine(skew) == [available |-> TRUE, skew |-> skew]
Engines == {MissingEngine, LoadedEngine(EngineSkew)}

\* new Astronomy.Observer, Astronomy.MakeTime, Astronomy.SearchRiseSet(Sun,
\* observer, Rise, searchDate, 1) and the read of sunrise.date:
\* [threw, date].  The read throws when the search returns null (no rise
\* within one day); the constructor throws when the module's Astronomy
\* export is missing
EngineRiseNear(engine, sc) ==
  IF ~engine.available \/ IsNaN(sc) THEN [threw |-> TRUE, date |-> NaN]
  ELSE [threw |-> FALSE, date |-> sc + engine.skew]
EngineSearchRise(engine, dt, latitude, longitude) ==
  EngineRiseNear(engine, SunCalcGetTimes(dt, latitude, longitude).sunrise)

\* ------------------------------------------------------------------------
\* AstronomicalCalculator
\* ------------------------------------------------------------------------
\* _calculateElevationCorrection, in milliseconds (-1.76 * sqrt(e) / 60 minutes)
ElevationCorrection(elevation) == 0 - 1760 * ISqrt(elevation)

\* _calculateBasicRefraction, in milliseconds (34 * cos(lat) * 4 / 60 seconds)
BasicRefraction(latitude) == (136000 * CosMilli(latitude)) \div 60000

\* _calculateAtmosphericRefraction, in milliseconds
AtmosphericRefraction(pressure, temperature, latitude) ==
  LET pressureFactor == (pressure * 10000) \div 101325
      tempFactor == (28815 * 10000) \div (27315 + temperature)
      baseRefraction == BasicRefraction(latitude)
  IN  (((baseRefraction * pressureFactor) \div 10000) * tempFactor) \div 10000

\* _calculateBasicSunrise
BasicSunrise(latitude, longitude, dt) == SunCalcGetTimes(dt, latitude, longitude).sunrise

\* _calculateHighPrecisionSunrise: moment add and subtract leave an invalid
\* moment invalid
HighPrecisionCorrected(sunrise, latitude, elevation) ==
  JsSub(IF JsGt(elevation, 0) THEN JsAdd(sunrise, ElevationCorrection(elevation)) ELSE sunrise,
        BasicRefraction(latitude))
HighPrecisionSunrise(latitude, longitude, elevation, dt) ==
  HighPrecisionCorrected(SunCalcGetTimes(dt, latitude, longitude).sunrise, latitude, elevation)

\* the try block of _calculateMaximumPrecisionSunrise on a rise instant
EngineCorrected(riseDate, latitude, pressure, temperature) ==
  JsSub(riseDate, AtmosphericRefraction(pressure, temperature, latitude))

\* what a sunrise strategy produced: the instant it returned, whether it
\* reported the fallback warning (console.warn), whether it threw
SunriseOf(t) == [time |-> t, warned |-> FALSE, threw |-> FALSE]
SunriseDegraded(t) == [time |-> t, warned |-> TRUE, threw |-> FALSE]
SunriseThrew == [time |-> NaN, warned |-> FALSE, threw |-> TRUE]

\* variants of the try/catch of _calculateMaximumPrecisionSunrise: without
\* the catch block, and with a catch block that returns the basic
\* strategy's value
TryEngineSunrise_NoCatch(sunrise, latitude, longitude, elevation, dt, pressure, temperature) ==
  IF sunrise.threw THEN SunriseThrew
  ELSE SunriseOf(EngineCorrected(sunrise.date, latitude, pressure, temperature))
TryEngineSunrise_FallbackBasic(sunrise, latitude, longitude, elevation, dt, pressure, temperature) ==
  IF sunrise.threw
  THEN SunriseDegraded(BasicSunrise(latitude, longitude, dt))
  ELSE SunriseOf(EngineCorrected(sunrise.date, latitude, pressure, temperature))

\* the try/catch of _calculateMaximumPrecisionSunrise on what the engine's
\* search produced: the catch block warns and returns the high precision
\* value
TryEngineSunrise(sunrise, latitude, longitude, elevation, dt, pressure, temperature) ==
  IF sunrise.threw
  THEN SunriseDegraded(HighPrecisionSunrise(latitude, longitude, elevation, dt))
  ELSE SunriseOf(EngineCorrected(sunrise.date, latitude, pressure, temperature))

\* _calculateMaximumPrecisionSunrise
MaximumPrecisionSunrise(engine, latitude, longitude, elevation, dt, pressure, temperature) ==
  TryEngineSunrise(EngineSearchRise(engine, dt, latitude, longitude),
                   latitude, longitude, elevation, dt, pressure, temperature)

\* AstronomicalCalculator.calculateSunrise; dateObj = moment.tz(date, timezone)
SunriseByPrecision(precision, engine, latitude, longitude, elevation, dateObj, pressure, temperature) ==
  CASE precision = "maximum" ->
         MaximumPrecisionSunrise(engine, latitude, longitude, elevation, dateObj, pressure, temperature)
    [] precision = "high" ->
         SunriseOf(HighPrecisionSunrise(latitude, longitude, elevation, dateObj))
    [] OTHER ->
         SunriseOf(BasicSunrise(latitude, longitude, dateObj))
AstroCalculateSunrise(precision, engine, latitude, longitude, elevation, date, pressure, temperature) ==
  SunriseByPrecision(precision, engine, latitude, longitude, elevation, MomentParse(date),
                     pressure, temperature)

\* getTwilightTimes (sunrise and sunset of SunCalc)
getTwilightTimes(latitude, longitude, date) == SunCalcGetTimes(MomentParse(date), latitude, longitude)

\* moment(a).diff(moment(b), 'minutes')
DiffMinutes(a, b) == IF IsNaN(a) \/ IsNaN(b) THEN NaN ELSE TruncDiv(a - b, 60000)

\* calculateDayLength: the record it returns
DayAndNight(dayLength) == [dayLength |-> dayLength, nightLength |-> JsSub(1440, dayLength)]
DayLengthOf(times) == DayAndNight(DiffMinutes(times.sunset, times.sunrise))
calculateDayLength(latitude, longitude, date) ==
  DayLengthOf(getTwilightTimes(latitude, longitude, date))

\* ------------------------------------------------------------------------
\* MuhuratCalculator
\* ------------------------------------------------------------------------
\* moment(t).clone().subtract(n, 'minutes').toDate(): an invalid moment
\* stays invalid, and a NaN amount is a zero-length step (moment applies
\* the milliseconds of a duration only when they are truthy)
SubtractMinutes(t, n) ==
  IF IsNaN(t) THEN NaN ELSE IF IsNaN(n) THEN t ELSE t - n * 60000

\* _calculateDayLength
MuhuratCalculateDayLength(latitude, longitude, date) == calculateDayLength(latitude, longitude, date)

\* the case 'dynamic' of _calculateMuhuratTimes
DynamicWindow(sunrise, muhuratDuration) ==
  [start |-> SubtractMinutes(sunrise, muhuratDuration), end |-> sunrise,
   durationMinutes |-> muhuratDuration]
DynamicMuhuratTimes(sunrise, latitude, longitude, date) ==
  DynamicWindow(sunrise,
    MathRoundDiv(GetProp(MuhuratCalculateDayLength(latitude, longitude, date), "totalMinutes"), 15))

\* variant: the fixed cases step back by an hour and a half
FixedMuhuratTimes_NinetyMinutes(sunrise, minutes) ==
  [start |-> SubtractMinutes(sunrise, 90), end |-> sunrise, durationMinutes |-> minutes]

\* the cases with a fixed duration
FixedMuhuratTimes(sunrise, minutes) ==
  [start |-> SubtractMinutes(sunrise, minutes), end |-> sunrise, durationMinutes |-> minutes]

\* _calculateMuhuratTimes
calculateMuhuratTimes(traditionType, sunrise, latitude, longitude, date) ==
  CASE traditionType = "extended" -> FixedMuhuratTimes(sunrise, 120)
    [] traditionType = "smarta" -> FixedMuhuratTimes(sunrise, 96)
    [] traditionType = "dynamic" -> DynamicMuhuratTimes(sunrise, latitude, longitude, date)
    [] OTHER -> FixedMuhuratTimes(sunrise, 96)

\* variant: the refraction correction applied at every precision
CorrectedForPrecision_EveryTier(mc, baseSunrise, latitude, date, pressure, temperature, humidity) ==
  IF baseSunrise.threw THEN baseSunrise
  ELSE [baseSunrise EXCEPT !.time =
          applySunriseCorrection(mc.refractionCalc.model, baseSunrise.time,
            DayOfYear(MomentParse(date)), latitude, pressure, temperature, humidity)]

\* the second half of _calculatePreciseSunrise: the refraction correction
\* of the base sunrise when the precision is 'maximum'
CorrectedForPrecision(mc, baseSunrise, latitude, date, pressure, temperature, humidity) ==
  IF baseSunrise.threw THEN baseSunrise
  ELSE IF mc.precision = "maximum"
  THEN [baseSunrise EXCEPT !.time =
          applySunriseCorrection(mc.refractionCalc.model, baseSunrise.time,
            DayOfYear(MomentParse(date)), latitude, pressure, temperature, humidity)]
  ELSE baseSunrise

\* _calculatePreciseSunrise
calculatePreciseSunrise(mc, engine, latitude, longitude, elevation, date, pressure, temperature, humidity) ==
  CorrectedForPrecision(mc,
    AstroCalculateSunrise(mc.astronomicalCalc.precision, engine,
                          latitude, longitude, elevation, date, pressure, temperature),
    latitude, date, pressure, temperature, humidity)

\* what a call produced: a returned value or a thrown error
Returned(v, w) == [status |-> "ok", message |-> NoError, value |-> v, warned |-> w]
Threw(msg) == [status |-> "throw", message |-> msg, value |-> [fields |-> {}], warned |-> FALSE]

CalculateFields == {"location", "date", "sunrise", "brahmaMuhurat", "astronomicalData",
                    "spiritualMetrics", "calculationDetails"}

\* the error of the engine when nothing catches it
EngineError == <<"Astronomy Engine calculation failed">>

\* the last steps of MuhuratCalculator.calculate: the errors that leave
\* it, and the result object it returns
CalculateResult(mc, params, elevation, pressure, temperature, humidity, invalid, sunrise, muhuratTimes, dayLength, parsed) ==
  IF invalid # NoError THEN Threw(invalid)
  ELSE IF sunrise.threw THEN Threw(EngineError)
  ELSE IF parsed.threw THEN Threw(<<"Invalid date format: ", "input">>)
  ELSE Returned(
    [fields |-> CalculateFields,
     location |-> [latitude |-> params.latitude, longitude |-> params.longitude,
                   elevation |-> elevation, timezone |-> params.timezone],
     date |-> parsed.date,
     sunrise |-> [time |-> sunrise.time],
     brahmaMuhurat |-> [start |-> [time |-> muhuratTimes.start],
                        end |-> [time |-> muhuratTimes.end],
                        duration |-> [minutes |-> muhuratTimes.durationMinutes],
                        traditionType |-> mc.traditionType],
     astronomicalData |-> [dayLength |-> [dayMinutes |-> dayLength.dayLength,
                                          nightMinutes |-> dayLength.nightLength]],
     calculationDetails |-> [precision |-> mc.precision,
                             refractionModel |-> mc.refractionCalc.model,
                             atmosphericConditions |-> [pressure |-> pressure,
                                 temperature |-> temperature, humidity |-> humidity]]],
    sunrise.warned)

\* the steps of MuhuratCalculator.calculate that follow the precise sunrise
CalculateFromSunrise(mc, params, elevation, pressure, temperature, humidity, sunrise) ==
  CalculateResult(mc, params, elevation, pressure, temperature, humidity,
    MuhuratValidateInputs(params),
    sunrise,
    calculateMuhuratTimes(mc.traditionType, sunrise.time, params.latitude, params.longitude, params.date),
    calculateDayLength(params.latitude, params.longitude, params.date),
    parseDateInput(params.date))

\* MuhuratCalculator.calculate once the defaults of its parameters are filled in
CalculateWithDefaults(mc, engine, params, elevation, pressure, temperature, humidity) ==
  CalculateFromSunrise(mc, params, elevation, pressure, temperature, humidity,
    calculatePreciseSunrise(mc, engine, params.latitude, params.longitude, elevation,
                            params.date, pressure, temperature, humidity))

\* MuhuratCalculator.calculate
MuhuratCalculate(mc, engine, params) ==
  CalculateWithDefaults(mc, engine, params,
    WithDefault(params.elevation, 0),
    WithDefault(params.pressure, DefaultPressure),
    WithDefault(params.temperature, DefaultTemperature),
    WithDefault(params.humidity, DefaultHumidity))

\* variant: the callback without its try/catch
BatchEntry_NoCatch(r, date) == r

\* the try/catch of the callback of MuhuratCalculator.calculateBatch: the
\* result of calculate, or {date, error} when calculate threw
BatchEntry(r, date) ==
  IF r.status = "ok" THEN r
  ELSE Returned([fields |-> {"date", "error"}, date |-> date, error |-> r.message], FALSE)

\* the callback of MuhuratCalculator.calculateBatch for one date
BatchItem(mc, engine, params, date) ==
  BatchEntry(MuhuratCalculate(mc, engine, [params EXCEPT !.date = date]), date)

\* what dates.map(...) produced: an error that leaves a callback leaves map
\* and calculateBatch
BatchOutcome(items) ==
  LET failed == {i \in DOMAIN items : items[i].status = "throw"}
  IN  IF failed = {} THEN [status |-> "ok", message |-> NoError, items |-> items]
      ELSE [status |-> "throw", items |-> <<>>,
            message |-> items[CHOOSE i \in failed : \A j \in failed : i <= j].message]

\* MuhuratCalculator.calculateBatch
MuhuratCalculateBatch(mc, engine, params, dates) ==
  BatchOutcome([i \in 1..Len(dates) |-> BatchItem(mc, engine, params, dates[i])])

\* BrahmaMuhuratCalculator.calculateBatch
FacadeCalculateBatch(mc, engine, params, dates, isArray) ==
  IF ~isArray THEN [status |-> "throw", items |-> <<>>, message |-> <<"Dates must be an array">>]
  ELSE MuhuratCalculateBatch(mc, engine, params, dates)

\* ------------------------------------------------------------------------
\* BrahmaMuhuratCalculator (the facade)
\* ------------------------------------------------------------------------
\* variant: the catch block throws a message of its own
WrappedResult_OwnMessage(invalid, result) ==
  IF invalid # NoError \/ result.status # "ok" THEN Threw(<<"Brahma Muhurat calculation failed">>)
  ELSE Returned([result.value EXCEPT !.fields = @ \cup {"library"}], result.warned)

\* the try/catch of calculate: result.library, and every error rethrown
\* with the prefix
WrappedResult(invalid, result) ==
  IF invalid # NoError THEN Threw(<<"Brahma Muhurat calculation failed: ">> \o invalid)
  ELSE IF result.status # "ok" THEN Threw(<<"Brahma Muhurat calculation failed: ">> \o result.message)
  ELSE Returned([result.value EXCEPT !.fields = @ \cup {"library"}], result.warned)

\* calculate: validation, the core calculation, result.library; every error
\* is rethrown wrapped
FacadeCalculate(f, mc, engine, params) ==
  WrappedResult(ValidateCalculationParams(params), MuhuratCalculate(mc, engine, params))

\* the result object of calculateSunrise, and the errors that leave it
SunriseResult(f, params, elevation, invalid, sunrise, parsed) ==
  IF invalid # NoError THEN Threw(invalid)
  ELSE IF sunrise.threw THEN Threw(EngineError)
  ELSE IF parsed.threw THEN Threw(<<"Invalid date format: ", "input">>)
  ELSE Returned(
    [fields |-> {"sunrise", "location", "date", "precision", "calculatedAt"},
     sunrise |-> [time |-> sunrise.time],
     location |-> [latitude |-> params.latitude, longitude |-> params.longitude,
                   elevation |-> elevation, timezone |-> params.timezone],
     date |-> parsed.date,
     precision |-> f.precision],
    sunrise.warned)

\* calculateSunrise once the defaults of its parameters are filled in
SunriseWithDefaults(f, ac, engine, params, elevation, pressure, temperature) ==
  SunriseResult(f, params, elevation,
    ValidateCalculationParams(params),
    AstroCalculateSunrise(ac.precision, engine, params.latitude, params.longitude,
                          elevation, params.date, pressure, temperature),
    parseDateInput(params.date))

\* calculateSunrise
FacadeCalculateSunrise(f, ac, engine, params) ==
  SunriseWithDefaults(f, ac, engine, params,
    WithDefault(params.elevation, 0),
    WithDefault(params.pressure, DefaultPressure),
    WithDefault(params.temperature, DefaultTemperature))

\* SunCalc.getPosition(date, latitude, longitude), already multiplied by
\* 180 / Math.PI: thousandths of a degree.  SunCalc measures the azimuth
\* from south, positive towards west, as the atan2 of its formula gives it;
\* the instant enters as the hour angle of the sun (degrees, a multiple of
\* 90 in -90..180), the date as its season, the latitude as 25 or 70
\* degrees north.  An invalid date gives NaN
SunCalcGetPosition(dt, latitude, hourAngle) ==
  LET northSummer == DayOfYear(dt) >= 80 /\ DayOfYear(dt) <= 266
      key == <<IF Abs(latitude) >= 67 THEN 70 ELSE 25, IF northSummer THEN "summer" ELSE "winter", hourAngle>>
  IN  IF ~dt.valid THEN [azimuth |-> NaN, altitude |-> NaN]
      ELSE
      CASE key = <<25, "winter", (0 - 90)>> -> [azimuth |-> (0 - 79279), altitude |-> (0 - 4958)]
        [] key = <<25, "winter", 0>> -> [azimuth |-> 0, altitude |-> 53200]
        [] key = <<25, "winter", 90>> -> [azimuth |-> 79279, altitude |-> (0 - 4958)]
        [] key = <<25, "winter", 180>> -> [azimuth |-> 180000, altitude |-> (0 - 76800)]
        [] key = <<25, "summer", (0 - 90)>> -> [azimuth |-> (0 - 111452), altitude |-> 9678]
        [] key = <<25, "summer", 0>> -> [azimuth |-> 0, altitude |-> 88440]
        [] key = <<25, "summer", 90>> -> [azimuth |-> 111452, altitude |-> 9678]
        [] key = <<25, "summer", 180>> -> [azimuth |-> 180000, altitude |-> (0 - 41560)]
        [] key = <<70, "winter", (0 - 90)>> -> [azimuth |-> (0 - 85913), altitude |-> (0 - 11079)]
        [] key = <<70, "winter", 0>> -> [azimuth |-> 0, altitude |-> 8200]
        [] key = <<70, "winter", 90>> -> [azimuth |-> 85913, altitude |-> (0 - 11079)]
        [] key = <<70, "winter", 180>> -> [azimuth |-> 180000, altitude |-> (0 - 31800)]
        [] key = <<70, "summer", (0 - 90)>> -> [azimuth |-> (0 - 98435), altitude |-> 21950]
        [] key = <<70, "summer", 0>> -> [azimuth |-> 0, altitude |-> 43440]
        [] key = <<70, "summer", 90>> -> [azimuth |-> 98435, altitude |-> 21950]
        [] key = <<70, "summer", 180>> -> [azimuth |-> 180000, altitude |-> 3440]

\* Astronomy.Horizon(time, observer, ra, dec, 'normal'): the azimuth is
\* measured from north towards east, 0 <= azimuth < 360
AstronomyHorizon(dt, latitude, hourAngle) ==
  [azimuth |-> (SunCalcGetPosition(dt, latitude, hourAngle).azimuth + 180000) % 360000,
   altitude |-> SunCalcGetPosition(dt, latitude, hourAngle).altitude]

\* calculateSolarPosition at an instant given by the sun's hour angle: the
\* engine's position, or in the catch block the position of SunCalc, whose
\* rightAscension and declination are null.  Astronomy.MakeTime throws on an
\* Invalid Date
SolarPositionAt(engine, dt, latitude, hourAngle) ==
  IF engine.available /\ dt.valid
  THEN [source |-> "Astronomy", rightAscensionIsNull |-> FALSE,
        azimuth |-> AstronomyHorizon(dt, latitude, hourAngle).azimuth,
        elevation |-> AstronomyHorizon(dt, latitude, hourAngle).altitude]
  ELSE [source |-> "SunCalc", rightAscensionIsNull |-> TRUE,
        azimuth |-> SunCalcGetPosition(dt, latitude, hourAngle).azimuth,
        elevation |-> SunCalcGetPosition(dt, latitude, hourAngle).altitude]

\* calculateSolarPosition on a date string: moment.tz(date, timezone) is the
\* local midnight of that date, when the hour angle of the sun is 180
\* degrees to the nearest quarter turn
calculateSolarPosition(engine, latitude, longitude, date) ==
  SolarPositionAt(engine, MomentParse(date), latitude, 180)

\* the result object of getAstronomicalData, and the errors that leave it
AstronomicalDataResult(params, invalid, parsed, twilight, dayLength, solarPosition) ==
  IF invalid # NoError THEN Threw(invalid)
  ELSE IF parsed.threw THEN Threw(<<"Invalid date format: ", "input">>)
  ELSE Returned(
    [fields |-> {"location", "date", "twilight", "dayLength", "solarPosition", "calculatedAt"},
     location |-> [latitude |-> params.latitude, longitude |-> params.longitude,
                   timezone |-> params.timezone],
     date |-> parsed.date,
     twilight |-> twilight,
     dayLength |-> dayLength,
     solarPosition |-> solarPosition],
    FALSE)

\* getAstronomicalData
FacadeGetAstronomicalData(f, ac, engine, params) ==
  AstronomicalDataResult(params,
    ValidateCalculationParams(params),
    parseDateInput(params.date),
    getTwilightTimes(params.latitude, params.longitude, params.date),
    calculateDayLength(params.latitude, params.longitude, params.date),
    calculateSolarPosition(engine, params.latitude, params.longitude, params.date))

\* RefractionCalculator.getModelInfo: models[this.model] || models.bennett
getModelInfo(rc) == IF rc.model \in {"bennett", "saemundsson", "rigorous"} THEN rc.model ELSE "bennett"

\* the facade's calculateRefraction(params); params.altitude in
\* millidegrees.  The refraction calculator's calculateRefraction takes
\* (altitude, pressure, temperature, humidity)
FacadeCalculateRefraction(rc, params) ==
  IF ~IsNumberType(params.altitude)
  THEN Threw(<<"Altitude is required and must be a number">>)
  ELSE Returned(
    [fields |-> {"altitude", "refraction", "atmosphericConditions", "model", "calculatedAt"},
     altitude |-> params.altitude,
     refraction |-> calculateRefraction(rc.model, params.altitude,
                      WithDefault(params.pressure, DefaultPressure),
                      WithDefault(params.temperature, DefaultTemperature),
                      WithDefault(params.humidity, DefaultHumidity)),
     atmosphericConditions |-> [pressure |-> WithDefault(params.pressure, DefaultPressure),
                                temperature |-> WithDefault(params.temperature, DefaultTemperature),
                                humidity |-> WithDefault(params.humidity, DefaultHumidity)],
     model |-> getModelInfo(rc)],
    FALSE)

\* MuhuratCalculator.getTraditionInfo: traditions[this.traditionType] || traditions.standard
getTraditionInfo(mc) ==
  IF mc.traditionType \in {"standard", "extended", "smarta", "dynamic"} THEN mc.traditionType ELSE "standard"

\* getPrecisionInfo: precisionLevels[this.precision] || precisionLevels.high
getPrecisionInfo(f) == IF f.precision \in {"basic", "high", "maximum"} THEN f.precision ELSE "high"

\* the facade's getTraditionInfo, getPrecisionInfo and getRefractionInfo
FacadeGetInfo(name, f, mc, rc) ==
  Returned([fields |-> CASE name = "getTraditionInfo" -> {"name", "duration", "description"}
                         [] name = "getPrecisionInfo" -> {"name", "accuracy", "description", "recommendedFor"}
                         [] OTHER -> {"name", "accuracy", "description"},
            name |-> CASE name = "getTraditionInfo" -> getTraditionInfo(mc)
                       [] name = "getPrecisionInfo" -> getPrecisionInfo(f)
                       [] OTHER -> getModelInfo(rc)],
           FALSE)

\* ------------------------------------------------------------------------
\* The validation and parsing helpers called on their own
\* ------------------------------------------------------------------------
\* throw new Error(message): the class of the error object and its message
NewError(message) == [class |-> "Error", message |-> message]

\* variant: the boundaries themselves are rejected
validateElevation_OpenInterval(elevation) ==
  IF ~IsNumberType(elevation) THEN <<"Elevation must be a number">>
  ELSE IF ~JsGt(elevation, 0 - 500) \/ ~JsLt(elevation, 9000)
  THEN <<"Elevation must be between -500 and 9000 meters">>
  ELSE NoError

\* validateElevation: the message it throws, NoError when it returns
validateElevation(elevation) ==
  IF ~IsNumberType(elevation) THEN <<"Elevation must be a number">>
  ELSE IF JsLt(elevation, 0 - 500) \/ JsGt(elevation, 9000)
  THEN <<"Elevation must be between -500 and 9000 meters">>
  ELSE IF IsNaN(elevation) THEN <<"Elevation must be a valid number">>
  ELSE NoError

\* AstronomicalCalculator.validateInputs (static), timezone and date strings
AstroValidateInputs(latitude, longitude, date, timezone) ==
  IF JsLt(latitude, 0 - 90) \/ JsGt(latitude, 90)
  THEN <<"Latitude must be between -90 and 90 degrees">>
  ELSE IF JsLt(longitude, 0 - 180) \/ JsGt(longitude, 180)
  THEN <<"Longitude must be between -180 and 180 degrees">>
  ELSE IF ~ZoneExists(timezone) THEN <<"Invalid timezone">>
  ELSE IF ~MomentParse(date).valid THEN <<"Invalid date format">>
  ELSE NoError

\* a value given to parseDateInput: a Date object or a moment (with the
\* instant it holds, InvalidDate for an Invalid Date), a string, or a value
\* of another type
DateObject(dt) == [kind |-> "Date", date |-> dt]
MomentObject(dt) == [kind |-> "moment", date |-> dt]
StringValue(str) == [kind |-> "string", string |-> str]
OtherValue == [kind |-> "other"]

\* parseDateInput on any value: [threw, date]
parseDateInputOf(input) ==
  CASE input.kind = "Date" -> [threw |-> FALSE, date |-> input.date]
    [] input.kind = "moment" -> [threw |-> FALSE, date |-> input.date]
    [] input.kind = "string" -> parseDateInput(input.string)
    [] OTHER -> [threw |-> TRUE, date |-> InvalidDate]

\* what a helper called on its own produced: it returned, or it threw the
\* error
HelperOutcome(message, value) ==
  IF message = NoError THEN [status |-> "ok", error |-> NewError(NoError), value |-> value]
  ELSE [status |-> "throw", error |-> NewError(message), value |-> InvalidDate]

\* ------------------------------------------------------------------------
\* MuhuratCalculator._calculateMoonPhase.  Lunar ages are hundredths of a day
\* ------------------------------------------------------------------------
\* a % b of JavaScript: the remainder has the sign of the dividend
JsRem(a, b) == IF a >= 0 THEN a % b ELSE 0 - ((0 - a) % b)

\* days from 1 January 2024 to 1 January of the year y
RECURSIVE DaysToYear(_)
DaysToYear(y) ==
  IF y = 2024 THEN 0
  ELSE IF y > 2024 THEN DaysToYear(y - 1) + (IF IsLeap(y - 1) THEN 366 ELSE 365)
  ELSE DaysToYear(y + 1) - (IF IsLeap(y) THEN 366 ELSE 365)

\* dateMoment.diff(knownNewMoon, 'days'), knownNewMoon = moment('2024-01-11')
DaysFromKnownNewMoon(dt) == DaysToYear(dt.y) + DayOfYear(dt) - 11

\* 100 * Math.abs(Math.cos((daysSinceNewMoon / 29.53) * 2 * Math.PI)) on the
\* ages of the model
Illumination(daysSinceNewMoon) ==
  LET a == Abs(daysSinceNewMoon)
  IN  CASE a = 0 -> 100
        [] a = 100 -> 98
        [] a = 500 -> 49
        [] a = 800 -> 13
        [] a = 847 -> 23
        [] a = 1000 -> 53
        [] a = 1200 -> 83
        [] a = 1435 -> 100
        [] a = 1500 -> 100
        [] a = 2000 -> 44
        [] a = 2200 -> 3
        [] a = 2300 -> 18
        [] a = 2500 -> 57
        [] a = 2900 -> 99
        [] OTHER -> 50

\* the if / else chain on daysSinceNewMoon
PhaseOfAge(daysSinceNewMoon) ==
  IF daysSinceNewMoon < 100 \/ daysSinceNewMoon > 2800 THEN "New Moon"
  ELSE IF daysSinceNewMoon < 700 THEN "Waxing Crescent"
  ELSE IF daysSinceNewMoon < 900 THEN "First Quarter"
  ELSE IF daysSinceNewMoon < 1400 THEN "Waxing Gibbous"
  ELSE IF daysSinceNewMoon < 1600 THEN "Full Moon"
  ELSE IF daysSinceNewMoon < 2200 THEN "Waning Gibbous"
  ELSE IF daysSinceNewMoon < 2400 THEN "Last Quarter"
  ELSE "Waning Crescent"

\* { phase, illumination, spiritualSignificance }: the significance is a
\* sentence fixed by the phase
MoonPhaseOfAge(daysSinceNewMoon) ==
  [phase |-> PhaseOfAge(daysSinceNewMoon), illumination |-> Illumination(daysSinceNewMoon),
   spiritualSignificance |-> PhaseOfAge(daysSinceNewMoon)]

\* _calculateMoonPhase(date) on a valid date
calculateMoonPhase(dt) == MoonPhaseOfAge(JsRem(DaysFromKnownNewMoon(dt) * 100, 2953))

\* ------------------------------------------------------------------------
\* The order in which a call starts its steps: the validation it runs and
\* the astronomical computations it starts, by the name of the method called
\* ------------------------------------------------------------------------
AstronomicalSteps == {"calculateSunrise", "getTwilightTimes", "calculateDayLength", "calculateSolarPosition"}

\* the message with which a call or a batch item failed, NoError if it did not
FailureMessage(r) ==
  IF r.status = "throw" THEN r.message
  ELSE IF "error" \in r.value.fields THEN r.value.error
  ELSE NoError

\* the sunrise step of the call ended in an exception
SunriseStepThrew(r) ==
  LET msg == FailureMessage(r)
  IN  msg # NoError /\ msg[Len(msg)] = EngineError[1]

\* variant: the sunrise is computed before the inputs are validated
MuhuratCalculateSteps_SunriseFirst(mc, params, r) ==
  IF MuhuratValidateInputs(params) # NoError THEN <<"calculateSunrise", "_validateInputs">>
  ELSE <<"calculateSunrise", "_validateInputs", "getTwilightTimes", "calculateDayLength",
         "calculateSolarPosition", "parseDateInput">>

\* MuhuratCalculator.calculate, r being what it produced: _validateInputs,
\* _calculatePreciseSunrise, _calculateMuhuratTimes (which starts
\* calculateDayLength under 'dynamic'), _getAstronomicalData, and
\* parseDateInput in the returned object
MuhuratCalculateSteps(mc, params, r) ==
  IF MuhuratValidateInputs(params) # NoError THEN <<"_validateInputs">>
  ELSE IF SunriseStepThrew(r) THEN <<"_validateInputs", "calculateSunrise">>
  ELSE <<"_validateInputs", "calculateSunrise">>
       \o (IF mc.traditionType = "dynamic" THEN <<"calculateDayLength">> ELSE <<>>)
       \o <<"getTwilightTimes", "calculateDayLength", "calculateSolarPosition", "parseDateInput">>

\* the facade's calculate
FacadeCalculateSteps(mc, params, r) ==
  IF ValidateCalculationParams(params) # NoError THEN <<"_validateCalculationParams">>
  ELSE <<"_validateCalculationParams">> \o MuhuratCalculateSteps(mc, params, r)

\* the facade's calculateSunrise
FacadeCalculateSunriseSteps(params, r) ==
  IF ValidateCalculationParams(params) # NoError THEN <<"_validateCalculationParams">>
  ELSE IF SunriseStepThrew(r) THEN <<"_validateCalculationParams", "calculateSunrise">>
  ELSE <<"_validateCalculationParams", "calculateSunrise", "parseDateInput">>

\* the facade's getAstronomicalData
FacadeGetAstronomicalDataSteps(params) ==
  IF ValidateCalculationParams(params) # NoError THEN <<"_validateCalculationParams">>
  ELSE <<"_validateCalculationParams", "getTwilightTimes", "calculateDayLength",
         "calculateSolarPosition", "parseDateInput">>

\* calculateBatch: the steps of each item, none when dates is not an array
FacadeCalculateBatchSteps(mc, params, dates, isArray, b) ==
  IF ~isArray THEN <<>>
  ELSE [i \in 1..Len(dates) |->
          MuhuratCalculateSteps(mc, [params EXCEPT !.date = dates[i]],
                                IF b.status = "ok" THEN b.items[i] ELSE Threw(b.message))]

\* ------------------------------------------------------------------------
\* The calculator as a state machine
\* ------------------------------------------------------------------------
VARIABLES
  facade,            \* BrahmaMuhuratCalculator: precision, traditionType, refractionModel
  muhuratCalc,       \* facade.muhuratCalc with its two sub-calculators
  astronomicalCalc,  \* facade.astronomicalCalc
  refractionCalc,    \* facade.refractionCalc
  engine,            \* the Astronomy Engine module as loaded
  call,              \* the last public operation and its arguments
  outcome,           \* what the last single-item operation returned or threw
  batch,             \* what the last calculateBatch returned or threw
  steps              \* the steps the last operation started, in order, per item

vars == <<facade, muhuratCalc, astronomicalCalc, refractionCalc, engine, call, outcome, batch, steps>>

\* the longest dates array given to calculateBatch
MaxBatch == 2

Precisions == {"basic", "high", "maximum"}
TraditionTypes == {"standard", "extended", "smarta", "dynamic"}
RefractionModels == {"bennett", "saemundsson", "rigorous"}

\* an option that is absent from the options object
Absent == ""

\* options.x || dflt
OrDefault(x, dflt) == IF x = Absent THEN dflt ELSE x

\* new RefractionCalculator(options)
NewRefractionCalculator(model, precision) ==
  [model |-> OrDefault(model, "bennett"), precision |-> OrDefault(precision, "high")]

\* new AstronomicalCalculator(options)
NewAstronomicalCalculator(precision) == [precision |-> OrDefault(precision, "high")]

\* new MuhuratCalculator(options)
NewMuhuratCalculator(precision, traditionType, refractionModel) ==
  LET p == OrDefault(precision, "high")
  IN  [precision |-> p,
       traditionType |-> OrDefault(traditionType, "standard"),
       astronomicalCalc |-> NewAstronomicalCalculator(p),
       refractionCalc |-> NewRefractionCalculator(refractionModel, p)]

\* new BrahmaMuhuratCalculator(options)
NewFacade(precision, traditionType, refractionModel) ==
  [precision |-> OrDefault(precision, "high"),
   traditionType |-> OrDefault(traditionType, "standard"),
   refractionModel |-> OrDefault(refractionModel, "bennett")]

\* the inputs of the model
DateString(sep, a, b, c) == [sep |-> sep, parts |-> <<a, b, c>>]
WinterDate == DateString("-", 2024, 2, 18)
SolsticeDate == DateString("-", 2024, 6, 21)
DayFirstDate == DateString("/", 18, 2, 2024)
GarbageDate == DateString("?", 0, 0, 0)
Dates == {WinterDate, SolsticeDate, DayFirstDate, GarbageDate}
BatchDates == {WinterDate, SolsticeDate, GarbageDate}

MkParams(lat, lon, elev, date, tz, p, t) ==
  [latitude |-> lat, longitude |-> lon, elevation |-> elev, date |-> date, timezone |-> tz,
   pressure |-> p, temperature |-> t, humidity |-> Undefined]

\* well-formed calls: a temperate latitude, one beyond the polar circle and
\* the pole, winter and solstice dates, with and without elevation and pressure
GoodParams ==
  {MkParams(lat, 83, elev, date, "Asia/Kolkata", p, Undefined) :
     lat \in {25, 70}, elev \in {Undefined, 100},
     date \in {WinterDate, SolsticeDate}, p \in {Undefined, 90000}}
  \cup {MkParams(90, 83, Undefined, WinterDate, "Asia/Kolkata", Undefined, Undefined)}
\* calls with one argument wrong or unusual
OddParams ==
  {MkParams(lat, 83, Undefined, WinterDate, "Asia/Kolkata", Undefined, Undefined) : lat \in {95, Undefined, NaN}}
  \cup {MkParams(25, 185, Undefined, WinterDate, "Asia/Kolkata", Undefined, Undefined)}
  \cup {MkParams(25, 83, Undefined, date, "Asia/Kolkata", Undefined, 0) : date \in Dates}
  \cup {MkParams(25, 83, Undefined, WinterDate, tz, Undefined, Undefined) : tz \in {"Invalid/Timezone", ""}}
  \cup {MkParams(0 - 70, 83, Undefined, WinterDate, "Europe/Oslo", Undefined, Undefined)}
  \cup {MkParams(25, 83, 9001, WinterDate, "Asia/Kolkata", Undefined, Undefined)}
  \cup {MkParams(95, 83, Undefined, WinterDate, "", Undefined, Undefined)}
ParamSet == GoodParams \cup OddParams

\* the calls of getAstronomicalData: a valid one, one beyond the polar
\* circle, and one wrong argument of each kind
AstronomicalParamSet ==
  {MkParams(lat, 83, Undefined, WinterDate, "Asia/Kolkata", Undefined, Undefined) : lat \in {25, 95}}
  \cup {MkParams(70, 83, Undefined, SolsticeDate, "Asia/Kolkata", Undefined, Undefined)}
  \cup {MkParams(25, 83, Undefined, GarbageDate, "Asia/Kolkata", Undefined, Undefined)}
  \cup {MkParams(25, 83, Undefined, WinterDate, "Invalid/Timezone", Undefined, Undefined)}

\* the calls of calculateRefraction: altitudes in millidegrees
MkRefractionParams(altitude, pressure) ==
  [altitude |-> altitude, pressure |-> pressure, temperature |-> Undefined, humidity |-> Undefined]
RefractionParamSet ==
  {MkRefractionParams(altitude, Undefined) : altitude \in {Undefined, 0, 45000, 0 - 3000}}
  \cup {MkRefractionParams(5000, 90000)}

\* base parameters of a batch (their date is replaced per item)
BaseParamSet ==
  {MkParams(25, 83, Undefined, GarbageDate, "Asia/Kolkata", Undefined, Undefined)}

DateSeqs == UNION {[1..n -> BatchDates] : n \in 0..MaxBatch}

NoCall == [name |-> "new", params |-> MkParams(0, 0, Undefined, GarbageDate, "", Undefined, Undefined),
           dates |-> <<>>, isArray |-> TRUE]
NoOutcome == [status |-> "none", message |-> NoError, value |-> [fields |-> {}], warned |-> FALSE]
NoBatch == [status |-> "none", message |-> NoError, items |-> <<>>]

Init ==
  \E precision \in Precisions \cup {Absent}, traditionType \in TraditionTypes \cup {Absent},
     refractionModel \in RefractionModels \cup {Absent} :
    /\ facade = NewFacade(precision, traditionType, refractionModel)
    /\ muhuratCalc = NewMuhuratCalculator(facade.precision, facade.traditionType, facade.refractionModel)
    /\ astronomicalCalc = NewAstronomicalCalculator(facade.precision)
    /\ refractionCalc = NewRefractionCalculator(facade.refractionModel, facade.precision)
    /\ engine \in Engines
    /\ call = NoCall
    /\ outcome = NoOutcome
    /\ batch = NoBatch
    /\ steps = <<>>

\* variant: calculate lowers the precision of the calculator it is called on
Calculate_Reconfiguring ==
  \E params \in ParamSet :
    /\ call' = [name |-> "calculate", params |-> params, dates |-> <<>>, isArray |-> TRUE]
    /\ outcome' = FacadeCalculate(facade, muhuratCalc, engine, params)
    /\ batch' = NoBatch
    /\ steps' = <<FacadeCalculateSteps(muhuratCalc, params, outcome')>>
    /\ facade' = [facade EXCEPT !.precision = "basic"]
    /\ UNCHANGED <<muhuratCalc, astronomicalCalc, refractionCalc, engine>>

\* variant: calculate answers from the result of the calculation before it
Calculate_Remembering ==
  \E params \in ParamSet :
    /\ call' = [name |-> "calculate", params |-> params, dates |-> <<>>, isArray |-> TRUE]
    /\ outcome' = IF call.name = "calculate" /\ outcome.status = "ok" THEN outcome
                  ELSE FacadeCalculate(facade, muhuratCalc, engine, params)
    /\ batch' = NoBatch
    /\ steps' = <<FacadeCalculateSteps(muhuratCalc, params, outcome')>>
    /\ UNCHANGED <<facade, muhuratCalc, astronomicalCalc, refractionCalc, engine>>

\* calculator.calculate(params)
Calculate ==
  \E params \in ParamSet :
    /\ call' = [name |-> "calculate", params |-> params, dates |-> <<>>, isArray |-> TRUE]
    /\ outcome' = FacadeCalculate(facade, muhuratCalc, engine, params)
    /\ batch' = NoBatch
    /\ steps' = <<FacadeCalculateSteps(muhuratCalc, params, outcome')>>
    /\ UNCHANGED <<facade, muhuratCalc, astronomicalCalc, refractionCalc, engine>>

\* calculator.calculateSunrise(params)
CalculateSunrise ==
  \E params \in ParamSet :
    /\ call' = [name |-> "calculateSunrise", params |-> params, dates |-> <<>>, isArray |-> TRUE]
    /\ outcome' = FacadeCalculateSunrise(facade, astronomicalCalc, engine, params)
    /\ batch' = NoBatch
    /\ steps' = <<FacadeCalculateSunriseSteps(params, outcome')>>
    /\ UNCHANGED <<facade, muhuratCalc, astronomicalCalc, refractionCalc, engine>>

\* calculator.calculateBatch(baseParams, dates); dates is an array or not
CalculateBatch ==
  \E params \in BaseParamSet, dates \in DateSeqs, isArray \in BOOLEAN :
    /\ isArray \/ dates = <<>>
    /\ call' = [name |-> "calculateBatch", params |-> params, dates |-> dates, isArray |-> isArray]
    /\ batch' = FacadeCalculateBatch(muhuratCalc, engine, params, dates, isArray)
    /\ outcome' = NoOutcome
    /\ steps' = FacadeCalculateBatchSteps(muhuratCalc, params, dates, isArray, batch')
    /\ UNCHANGED <<facade, muhuratCalc, astronomicalCalc, refractionCalc, engine>>

\* calculator.getAstronomicalData(params)
GetAstronomicalData ==
  \E params \in AstronomicalParamSet :
    /\ call' = [name |-> "getAstronomicalData", params |-> params, dates |-> <<>>, isArray |-> TRUE]
    /\ outcome' = FacadeGetAstronomicalData(facade, astronomicalCalc, engine, params)
    /\ batch' = NoBatch
    /\ steps' = <<FacadeGetAstronomicalDataSteps(params)>>
    /\ UNCHANGED <<facade, muhuratCalc, astronomicalCalc, refractionCalc, engine>>

\* calculator.calculateRefraction(params)
CalculateRefraction ==
  \E params \in RefractionParamSet :
    /\ call' = [name |-> "calculateRefraction", params |-> params, dates |-> <<>>, isArray |-> TRUE]
    /\ outcome' = FacadeCalculateRefraction(refractionCalc, params)
    /\ batch' = NoBatch
    /\ steps' = <<<<>>>>
    /\ UNCHANGED <<facade, muhuratCalc, astronomicalCalc, refractionCalc, engine>>

\* calculator.getTraditionInfo(), getPrecisionInfo(), getRefractionInfo()
GetInfo ==
  \E name \in {"getTraditionInfo", "getPrecisionInfo", "getRefractionInfo"} :
    /\ call' = [name |-> name, params |-> NoCall.params, dates |-> <<>>, isArray |-> TRUE]
    /\ outcome' = FacadeGetInfo(name, facade, muhuratCalc, refractionCalc)
    /\ batch' = NoBatch
    /\ steps' = <<<<>>>>
    /\ UNCHANGED <<facade, muhuratCalc, astronomicalCalc, refractionCalc, engine>>

Next ==
  \/ Calculate
  \/ CalculateSunrise
  \/ CalculateBatch
  \/ GetAstronomicalData
  \/ CalculateRefraction
  \/ GetInfo

Spec == Init /\ [][Next]_vars

\* ------------------------------------------------------------------------
\* The calculator constructed with any precision string: options.precision
\* is stored as given, recognised or not
\* ------------------------------------------------------------------------
PrecisionStrings == Precisions \cup {Absent, "ultra"}

PrecisionInit ==
  \E precision \in PrecisionStrings :
    /\ facade = NewFacade(precision, Absent, Absent)
    /\ muhuratCalc = NewMuhuratCalculator(facade.precision, facade.traditionType, facade.refractionModel)
    /\ astronomicalCalc = NewAstronomicalCalculator(facade.precision)
    /\ refractionCalc = NewRefractionCalculator(facade.refractionModel, facade.precision)
    /\ engine \in Engines
    /\ call = NoCall
    /\ outcome = NoOutcome
    /\ batch = NoBatch
    /\ steps = <<>>

PrecisionNext ==
  \/ CalculateSunrise
  \/ GetInfo

PrecisionSpec == PrecisionInit /\ [][PrecisionNext]_vars

\* ------------------------------------------------------------------------
\* The helpers as operations of their own: every call applies one helper to
\* arguments drawn from the sets below
\* ------------------------------------------------------------------------
Latitudes == {0 - 91, 0 - 90, 0, 45, 90, 91, NaN, Undefined}
Longitudes == {0 - 181, 0 - 180, 0, 83, 180, 181, NaN, Undefined}
Elevations == {0 - 501, 0 - 500, 0, 8848, 9000, 9001, NaN, Undefined}
Timezones == KnownZones \cup {"Invalid/Timezone", "Mars/Phobos", ""}
MonthThirteen == DateString("-", 2024, 13, 1)
DayThirtyTwo == DateString("-", 2024, 1, 32)
DateValues ==
  {StringValue(str) : str \in Dates \cup {MonthThirteen, DayThirtyTwo, DateString("/", 2024, 2, 18),
                                         DateString("-", 18, 2, 2024), DateString("/", 2, 18, 2024),
                                         DateString("/", 1, 2, 2024), DateString("/", 12, 11, 2024),
                                         DateString("/", 31, 12, 2024)}}
  \cup {DateObject(MkDate(2024, 1, 1)), DateObject(InvalidDate),
        MomentObject(MkDate(2024, 1, 1)), MomentObject(InvalidDate), OtherValue}

MoonDates ==
  {MkDate(2023, 12, 20), MkDate(2024, 1, 1), MkDate(2024, 1, 11), MkDate(2024, 1, 12), MkDate(2024, 1, 16), MkDate(2024, 1, 19), MkDate(2024, 1, 23),
   MkDate(2024, 1, 26), MkDate(2024, 1, 31), MkDate(2024, 2, 3), MkDate(2024, 2, 5), MkDate(2024, 2, 9), MkDate(2024, 2, 18), MkDate(2024, 6, 21)}
HourAngles == {0 - 90, 0, 90, 180}
ApparentAltitudes == {0 - 5000, 0 - 3000, 0 - 2000, 0, 5000, 45000, 90000}
Pressures == {50000, DefaultPressure, 110000}
Temperatures == {0 - 5000, 0, DefaultTemperature, 5000}

UtilityInit ==
  /\ facade = NewFacade(Absent, Absent, Absent)
  /\ muhuratCalc = NewMuhuratCalculator(Absent, Absent, Absent)
  /\ astronomicalCalc = NewAstronomicalCalculator(Absent)
  /\ \E model \in RefractionModels \cup {Absent} : refractionCalc = NewRefractionCalculator(model, Absent)
  /\ engine \in Engines
  /\ call = [name |-> "none", args |-> <<>>]
  /\ outcome = HelperOutcome(NoError, InvalidDate)
  /\ batch = NoBatch
  /\ steps = <<>>

\* validateCoordinates(latitude, longitude)
ValidateCoordinates ==
  \E latitude \in Latitudes, longitude \in Longitudes :
    /\ call' = [name |-> "validateCoordinates", args |-> <<latitude, longitude>>]
    /\ outcome' = HelperOutcome(validateCoordinates(latitude, longitude), InvalidDate)
    /\ UNCHANGED <<facade, muhuratCalc, astronomicalCalc, refractionCalc, engine, batch, steps>>

\* validateElevation(elevation)
ValidateElevation ==
  \E elevation \in Elevations :
    /\ call' = [name |-> "validateElevation", args |-> <<elevation>>]
    /\ outcome' = HelperOutcome(validateElevation(elevation), InvalidDate)
    /\ UNCHANGED <<facade, muhuratCalc, astronomicalCalc, refractionCalc, engine, batch, steps>>

\* validateTimezone(timezone)
ValidateTimezone ==
  \E timezone \in Timezones :
    /\ call' = [name |-> "validateTimezone", args |-> <<timezone>>]
    /\ outcome' = HelperOutcome(validateTimezone(timezone), InvalidDate)
    /\ UNCHANGED <<facade, muhuratCalc, astronomicalCalc, refractionCalc, engine, batch, steps>>

\* the facade's _validateCalculationParams(params)
ValidateParams ==
  \E timezone \in Timezones :
    /\ call' = [name |-> "_validateCalculationParams", args |-> <<timezone>>]
    /\ outcome' = HelperOutcome(
         ValidateCalculationParams(MkParams(25, 83, Undefined, WinterDate, timezone, Undefined, Undefined)),
         InvalidDate)
    /\ UNCHANGED <<facade, muhuratCalc, astronomicalCalc, refractionCalc, engine, batch, steps>>

\* AstronomicalCalculator.validateInputs(latitude, longitude, date, timezone)
ValidateInputs ==
  \E latitude \in {0, 91}, longitude \in {0, 181}, date \in {WinterDate, GarbageDate},
     timezone \in Timezones \ {""} :
    /\ call' = [name |-> "validateInputs", args |-> <<latitude, longitude, date, timezone>>]
    /\ outcome' = HelperOutcome(AstroValidateInputs(latitude, longitude, date, timezone), InvalidDate)
    /\ UNCHANGED <<facade, muhuratCalc, astronomicalCalc, refractionCalc, engine, batch, steps>>

\* parseDateInput(input)
ParseDateInput ==
  \E input \in DateValues :
    /\ call' = [name |-> "parseDateInput", args |-> <<input>>]
    /\ outcome' = HelperOutcome(
         IF parseDateInputOf(input).threw THEN <<"Invalid date format: ", ToString(input)>> ELSE NoError,
         parseDateInputOf(input).date)
    /\ UNCHANGED <<facade, muhuratCalc, astronomicalCalc, refractionCalc, engine, batch, steps>>

\* AstronomicalCalculator.calculateSolarPosition(latitude, longitude, date,
\* timezone) on a Date object: the instant is given by its calendar date and
\* the hour angle of the sun at the place
CalculateSolarPosition ==
  \E latitude \in {25, 70}, dt \in {MkDate(2024, 2, 18), MkDate(2024, 6, 21)}, hourAngle \in HourAngles :
    /\ call' = [name |-> "calculateSolarPosition", args |-> <<latitude, dt, hourAngle>>]
    /\ outcome' = HelperOutcome(NoError, SolarPositionAt(engine, dt, latitude, hourAngle))
    /\ UNCHANGED <<facade, muhuratCalc, astronomicalCalc, refractionCalc, engine, batch, steps>>

\* RefractionCalculator.calculateRefraction(apparentAltitude, pressure,
\* temperature, humidity) on the calculator as constructed
RefractionCalculate ==
  \E apparentAltitude \in ApparentAltitudes, pressure \in Pressures, temperature \in Temperatures,
     humidity \in {DefaultHumidity, 90} :
    /\ call' = [name |-> "calculateRefraction", args |-> <<apparentAltitude, pressure, temperature, humidity>>]
    /\ outcome' = HelperOutcome(NoError,
         calculateRefraction(refractionCalc.model, apparentAltitude, pressure, temperature, humidity))
    /\ UNCHANGED <<facade, muhuratCalc, astronomicalCalc, refractionCalc, engine, batch, steps>>

\* MuhuratCalculator._calculateMoonPhase(date)
CalculateMoonPhase ==
  \E dt \in MoonDates :
    /\ call' = [name |-> "_calculateMoonPhase", args |-> <<dt>>]
    /\ outcome' = HelperOutcome(NoError, calculateMoonPhase(dt))
    /\ UNCHANGED <<facade, muhuratCalc, astronomicalCalc, refractionCalc, engine, batch, steps>>

UtilityNext ==
  \/ ValidateCoordinates
  \/ ValidateElevation
  \/ ValidateTimezone
  \/ ValidateParams
  \/ ValidateInputs
  \/ ParseDateInput
  \/ CalculateSolarPosition
  \/ RefractionCalculate
  \/ CalculateMoonPhase

UtilitySpec == UtilityInit /\ [][UtilityNext]_vars

\* ------------------------------------------------------------------------
\* Properties
\* ------------------------------------------------------------------------
CalcOk == call.name = "calculate" /\ outcome.status = "ok"
Window == outcome.value.brahmaMuhurat
Sunrise == outcome.value.sunrise.time
Elevation == WithDefault(call.params.elevation, 0)
Pressure == WithDefault(call.params.pressure, DefaultPressure)
Temperature == WithDefault(call.params.temperature, DefaultTemperature)
Humidity == WithDefault(call.params.humidity, DefaultHumidity)

\* a === b on numbers: NaN equals nothing
StrictEq(a, b) == ~IsNaN(a) /\ ~IsNaN(b) /\ a = b

\* latitude, longitude, timezone and date are all valid: whole degrees in
\* range, a zone of the database, an ISO calendar date
IsoDate(d) == d.sep = "-" /\ ValidYMD(d.parts[1], d.parts[2], d.parts[3])
WellFormed(p) ==
  /\ p.latitude \in (0 - 90)..90
  /\ p.longitude \in (0 - 180)..180
  /\ p.timezone \in KnownZones
  /\ IsoDate(p.date)

\* C1: in every result of calculate the window ends at the sunrise instant,
\* starts strictly before it ends, and lasts exactly duration.minutes minutes
C1_WindowEndsAtSunrise ==
  CalcOk =>
    /\ Window.end.time = Sunrise
    /\ JsLt(Window.start.time, Window.end.time)
    /\ StrictEq(JsSub(Window.end.time, Window.start.time),
                IF IsNaN(Window.duration.minutes) THEN NaN ELSE Window.duration.minutes * 60000)

\* C2: the duration reported, and stepped back from sunrise, is 96 minutes
\* under 'standard' and 'smarta' and 120 minutes under 'extended'
FixedMinutes(traditionType) == IF traditionType = "extended" THEN 120 ELSE 96
C2_FixedDurations ==
  (CalcOk /\ facade.traditionType \in {"standard", "smarta", "extended"}) =>
    /\ Window.duration.minutes = FixedMinutes(facade.traditionType)
    /\ \/ IsNaN(Sunrise) /\ IsNaN(Window.start.time)
       \/ ~IsNaN(Sunrise) /\ Window.start.time = Sunrise - FixedMinutes(facade.traditionType) * 60000
C2_Witness ==
  /\ CalcOk /\ facade.traditionType = "extended" /\ ~IsNaN(Sunrise)
  /\ Window.duration.minutes = 120 /\ Window.start.time = Sunrise - 7200000

\* C3: under 'dynamic' the duration is round(nightLength / 15), nightLength
\* being the night length calculateDayLength computes, and the window starts
\* that many minutes before sunrise
NightLength == calculateDayLength(call.params.latitude, call.params.longitude, call.params.date).nightLength
C3_DynamicDuration ==
  (CalcOk /\ facade.traditionType = "dynamic" /\ ~IsNaN(NightLength) /\ ~IsNaN(Sunrise)) =>
    /\ Window.duration.minutes = MathRoundDiv(NightLength, 15)
    /\ Window.start.time = Sunrise - MathRoundDiv(NightLength, 15) * 60000

\* C4: under 'dynamic', a calculation whose night length is not available
\* fails with an error instead of returning a window
C4_DynamicNeedsNightLength ==
  (call.name = "calculate" /\ facade.traditionType = "dynamic" /\ WellFormed(call.params)
     /\ IsNaN(NightLength)) =>
    outcome.status = "throw"

\* C5: calculateBatch with an array never throws and returns one entry per
\* date, in order, each either the result for that date or {date, error};
\* with anything but an array it throws
IsErrorEntry(v) == v.fields = {"date", "error"}
C5_BatchIsolatesFailures ==
  call.name = "calculateBatch" =>
    IF call.isArray
    THEN /\ batch.status = "ok"
         /\ Len(batch.items) = Len(call.dates)
         /\ \A i \in 1..Len(call.dates) :
              LET v == batch.items[i].value
              IN  IF IsErrorEntry(v)
                  THEN DOMAIN v = {"fields", "date", "error"} /\ v.date = call.dates[i] /\ v.error # NoError
                  ELSE /\ v.fields = CalculateFields
                       /\ v.date = parseDateInput(call.dates[i]).date
                       /\ v.location.latitude = call.params.latitude
    ELSE batch.status = "throw" /\ batch.message = <<"Dates must be an array">>
C5_Witness ==
  /\ call.name = "calculateBatch" /\ call.isArray /\ batch.status = "ok"
  /\ Len(batch.items) = 2
  /\ IsErrorEntry(batch.items[1].value)
  /\ ~IsErrorEntry(batch.items[2].value)

\* C6: a successful entry of calculateBatch has the fields and the values of
\* the result calculate returns for the same parameters and that date
C6_BatchEntryEqualsSingle ==
  (call.name = "calculateBatch" /\ batch.status = "ok") =>
    \A i \in 1..Len(batch.items) :
      ~IsErrorEntry(batch.items[i].value) =>
        LET single == FacadeCalculate(facade, muhuratCalc, engine, [call.params EXCEPT !.date = call.dates[i]])
        IN  single.status = "ok" /\ single.value = batch.items[i].value

\* C7: with latitude in [-90, 90] and valid longitude, timezone and date,
\* calculate returns a result and does not throw, at every precision, also
\* where no sunrise exists
C7_PolarNeverThrows ==
  (call.name = "calculate" /\ WellFormed(call.params)) => outcome.status = "ok"
C7_Witness ==
  /\ CalcOk /\ facade.precision = "maximum" /\ engine.available
  /\ call.params.latitude = 70 /\ call.params.date = SolsticeDate
  /\ outcome.warned /\ IsNaN(Sunrise)

\* C8: at 'maximum', when the rise/set engine fails, calculateSunrise does
\* not throw: it warns and returns the value of the 'high' strategy for the
\* same latitude, longitude, elevation and date
EngineFailed ==
  EngineSearchRise(engine, MomentParse(call.params.date), call.params.latitude, call.params.longitude).threw
HighValue ==
  AstroCalculateSunrise("high", engine, call.params.latitude, call.params.longitude, Elevation,
                        call.params.date, Pressure, Temperature).time
C8_MaximumFallsBackToHigh ==
  (call.name = "calculateSunrise" /\ astronomicalCalc.precision = "maximum"
     /\ ValidateCalculationParams(call.params) = NoError /\ EngineFailed) =>
    /\ outcome.status = "ok"
    /\ outcome.warned
    /\ Sunrise = HighValue
C8_Witness ==
  /\ call.name = "calculateSunrise" /\ astronomicalCalc.precision = "maximum"
  /\ ~engine.available /\ outcome.status = "ok" /\ outcome.warned
  /\ ~IsNaN(Sunrise) /\ Sunrise = HighValue
  /\ Elevation = 100

\* C9: a result that came through the maximum-to-high fallback differs, as a
\* value, from every result the engine produces without degrading
C9_DegradedIsDistinguishable ==
  (CalcOk /\ facade.precision = "maximum" /\ outcome.warned) =>
    \A skew \in {0, EngineSkew} :
      LET other == FacadeCalculate(facade, muhuratCalc, LoadedEngine(skew), call.params)
      IN  other.warned \/ other.value # outcome.value

\* C10: the refraction-to-time correction is subtracted from the engine's
\* sunrise once at 'maximum' and not at all at 'basic' and 'high'
BaseSunrise ==
  AstroCalculateSunrise(astronomicalCalc.precision, engine, call.params.latitude, call.params.longitude,
                        Elevation, call.params.date, Pressure, Temperature).time
TimeCorrection ==
  refractionToTimeCorrection(
    calculateSunriseRefraction(refractionCalc.model, Pressure, Temperature, Humidity),
    call.params.latitude,
    CosDeclinationMilli(DayOfYear(MomentParse(call.params.date))))
C10_CorrectionOnceAtMaximum ==
  (CalcOk /\ ~IsNaN(BaseSunrise)) =>
    IF facade.precision = "maximum"
    THEN Sunrise = BaseSunrise - TimeCorrection
    ELSE Sunrise = BaseSunrise
C10_Witness ==
  /\ CalcOk /\ facade.precision = "maximum" /\ ~IsNaN(BaseSunrise)
  /\ TimeCorrection > 0
  /\ Sunrise = BaseSunrise - TimeCorrection

\* C11: in calculate, calculateSunrise, getAstronomicalData and every item
\* of calculateBatch, an invalid latitude, longitude, timezone or date is
\* rejected, and no astronomical computation is started for that call
OutOfRange(x, lo, hi) == ~IsNumberType(x) \/ IsNaN(x) \/ x < lo \/ x > hi
InvalidInput(p) ==
  \/ OutOfRange(p.latitude, 0 - 90, 90)
  \/ OutOfRange(p.longitude, 0 - 180, 180)
  \/ p.timezone \notin KnownZones
  \/ parseDateInput(p.date).threw
ItemParams(i) ==
  IF call.name = "calculateBatch" THEN [call.params EXCEPT !.date = call.dates[i]] ELSE call.params
ItemResult(i) == IF call.name = "calculateBatch" THEN batch.items[i] ELSE outcome
C12_ElevationOutOfRangeRejected ==
  (call.name = "calculate" /\ IsNumberType(call.params.elevation)
     /\ (JsLt(call.params.elevation, 0 - 500) \/ JsGt(call.params.elevation, 9000))) =>
    outcome.status = "throw"

\* C17: calculate with a numeric latitude outside [-90, 90], or a numeric
\* longitude outside [-180, 180], throws an error whose message contains
\* the sentence that names the field and its range
Contains(msg, part) == \E k \in DOMAIN msg : msg[k] = part
NumberOutside(x, lo, hi) == IsNumberType(x) /\ (JsLt(x, lo) \/ JsGt(x, hi))
LatitudeSentence == "Latitude must be between -90 and 90 degrees"
LongitudeSentence == "Longitude must be between -180 and 180 degrees"
C19_ConfigurationFixed ==
  [][/\ facade' = facade
     /\ muhuratCalc' = muhuratCalc
     /\ astronomicalCalc' = astronomicalCalc
     /\ refractionCalc' = refractionCalc]_vars
C19_Witness ==
  /\ call.name = "calculate" /\ outcome.status = "throw"
  /\ facade.precision = "maximum" /\ facade.traditionType = "dynamic"
  /\ facade.refractionModel = "rigorous"
  /\ muhuratCalc = NewMuhuratCalculator("maximum", "dynamic", "rigorous")
  /\ astronomicalCalc.precision = "maximum" /\ refractionCalc.model = "rigorous"

\* C20: whatever was calculated before, a calculation returns the sunrise,
\* start and end instants that its parameters and the configuration of the
\* calculator determine: the same calculation made again returns the same
Instants(v) == <<v.sunrise.time, v.brahmaMuhurat.start.time, v.brahmaMuhurat.end.time>>
SunriseOfCalculate == FacadeCalculate(facade, muhuratCalc, engine, call.params)
C24_SunriseSameAsCalculate ==
  (call.name = "calculateSunrise" /\ outcome.status = "ok" /\ SunriseOfCalculate.status = "ok") =>
    Sunrise = SunriseOfCalculate.value.sunrise.time

\* C25: when a calculation at 'maximum' degrades to the high strategy,
\* calculate reports the sunrise that a calculator configured with
\* precision 'high' reports for the same parameters
CalculateAtHigh ==
  FacadeCalculate(NewFacade("high", facade.traditionType, facade.refractionModel),
                  NewMuhuratCalculator("high", facade.traditionType, facade.refractionModel),
                  engine, call.params)
C25_DegradedEqualsHigh ==
  (CalcOk /\ facade.precision = "maximum" /\ outcome.warned) =>
    (CalculateAtHigh.status = "ok" /\ Sunrise = CalculateAtHigh.value.sunrise.time)

\* C26: calculate, calculateSunrise, getAstronomicalData and a calculateBatch
\* item reject the same inputs: where one of them fails, each of them fails
Rejects(r) == FailureMessage(r) # NoError
RejectedByCalculate == Rejects(FacadeCalculate(facade, muhuratCalc, engine, call.params))
RejectedBySunrise == Rejects(FacadeCalculateSunrise(facade, astronomicalCalc, engine, call.params))
RejectedByAstronomicalData == Rejects(FacadeGetAstronomicalData(facade, astronomicalCalc, engine, call.params))
RejectedByBatchItem == Rejects(BatchItem(muhuratCalc, engine, call.params, call.params.date))
C26_SameInputsRejected ==
  call.name \in {"calculate", "calculateSunrise", "getAstronomicalData"} =>
    /\ RejectedByCalculate <=> RejectedBySunrise
    /\ RejectedBySunrise <=> RejectedByAstronomicalData
    /\ RejectedByAstronomicalData <=> RejectedByBatchItem

\* C29: for every precision a calculator can be constructed with, the tier
\* that getPrecisionInfo describes is the strategy calculateSunrise runs; an
\* unrecognised precision string is the same tier for both
SunriseOfDescribedTier ==
  AstroCalculateSunrise(getPrecisionInfo(facade), engine, call.params.latitude, call.params.longitude,
                        Elevation, call.params.date, Pressure, Temperature)
C29_InfoTierIsStrategyRun ==
  (call.name = "calculateSunrise" /\ outcome.status = "ok") =>
    (~SunriseOfDescribedTier.threw /\ Sunrise = SunriseOfDescribedTier.time)

\* ------------------------------------------------------------------------
\* The helpers called on their own
\* ------------------------------------------------------------------------
HelperCalled(name) == call.name = name
HelperThrew == outcome.status = "throw"
\* a value that is not a number, is NaN, or lies outside [-bound, bound]
NotWithin(v, lo, hi) == v = Undefined \/ v = NaN \/ v < lo \/ v > hi

\* C13: validateCoordinates throws exactly when an argument is not a number,
\* is NaN or is out of its range; the boundaries 90, -90, 180, -180 pass
C13_CoordinatesRejectedExactly ==
  HelperCalled("validateCoordinates") =>
    (HelperThrew <=> (NotWithin(call.args[1], 0 - 90, 90) \/ NotWithin(call.args[2], 0 - 180, 180)))
C13_Witness ==
  /\ HelperCalled("validateCoordinates") /\ call.args = <<0 - 90, 180>>
  /\ outcome.status = "ok"

\* C14: an out-of-range coordinate or elevation raises a RangeError, a
\* non-numeric or NaN coordinate raises a TypeError
C14_ErrorClasses ==
  /\ (HelperCalled("validateCoordinates") /\ HelperThrew) =>
        outcome.error.class =
          (IF call.args[1] \in {Undefined, NaN} \/ call.args[2] \in {Undefined, NaN}
           THEN "TypeError" ELSE "RangeError")
  /\ (HelperCalled("validateElevation") /\ HelperThrew /\ call.args[1] \notin {Undefined, NaN}) =>
        outcome.error.class = "RangeError"

\* C15: validateElevation accepts every number from -500 to 9000, both
\* included, and throws for any other number, for NaN and for a non-number
C15_ElevationRejectedExactly ==
  HelperCalled("validateElevation") =>
    (HelperThrew <=> NotWithin(call.args[1], 0 - 500, 9000))
C15_Witness ==
  /\ HelperCalled("validateElevation") /\ call.args = <<9000>>
  /\ outcome.status = "ok"

\* C16: when a non-empty timezone string is rejected as unrecognised, by
\* the facade's validation, by validateTimezone or by
\* AstronomicalCalculator.validateInputs, the message contains the string
UnrecognisedZone(tz) == tz # "" /\ ~ZoneExists(tz)
C16_TimezoneErrorNamesZone ==
  /\ (call.name \in {"validateTimezone", "_validateCalculationParams"} /\ UnrecognisedZone(call.args[1])) =>
        (HelperThrew /\ Contains(outcome.error.message, call.args[1]))
  /\ (HelperCalled("validateInputs") /\ call.args[1] = 0 /\ call.args[2] = 0
        /\ UnrecognisedZone(call.args[4])) =>
        (HelperThrew /\ Contains(outcome.error.message, call.args[4]))

\* C18: parseDateInput returns a valid instant or throws 'Invalid date
\* format', whatever the input; month 13 and day 32 are rejected
C18_NeverAnInvalidDate ==
  HelperCalled("parseDateInput") =>
    /\ \/ outcome.status = "ok" /\ outcome.value.valid
       \/ HelperThrew /\ outcome.error.message[1] = "Invalid date format: "
    /\ call.args[1] \in {StringValue(MonthThirteen), StringValue(DayThirtyTwo)} => HelperThrew

\* C21: calculateSolarPosition returns an azimuth from 0 to 360 degrees and
\* an elevation from -90 to 90 degrees, on the engine's path and on the
\* fallback path
C21_SolarPositionRanges ==
  HelperCalled("calculateSolarPosition") =>
    /\ outcome.value.azimuth >= 0 /\ outcome.value.azimuth <= 360000
    /\ outcome.value.elevation >= 0 - 90000 /\ outcome.value.elevation <= 90000

\* C22: for each model and every apparent altitude from -2 to 90 degrees,
\* with pressure from 500 to 1100 and temperature from -50 to 50,
\* calculateRefraction returns at least 0 arc-minutes
C22_RefractionNotNegative ==
  (HelperCalled("calculateRefraction") /\ call.args[1] >= 0 - 2000 /\ call.args[1] <= 90000) =>
    outcome.value >= 0

\* C23: at apparent altitude 0, under the same pressure, temperature and
\* humidity, the three models' refractions differ from one another by no
\* more than a few arc-minutes (ten of them, 10000 thousandths, at the most)
C23_ModelsAgreeAtHorizon ==
  (HelperCalled("calculateRefraction") /\ call.args[1] = 0) =>
    \A model \in RefractionModels :
      Abs(outcome.value - calculateRefraction(model, 0, call.args[2], call.args[3], call.args[4]))
        <= 10000

\* C27: below -2 degrees calculateRefraction returns horizonRefraction +
\* altitude * (horizonRefraction / 34), horizonRefraction being the
\* configured model's refraction at altitude 0 under the caller's pressure,
\* temperature and humidity
HorizonRefractionOfCall ==
  calculateRefraction(refractionCalc.model, 0, call.args[2], call.args[3], call.args[4])
C27_ExtrapolationUsesCallersAtmosphere ==
  (HelperCalled("calculateRefraction") /\ call.args[1] < 0 - 2000) =>
    outcome.value = HorizonRefractionOfCall
                    + TruncDiv(call.args[1] * TruncDiv(HorizonRefractionOfCall, 34), 1000)

\* C28: the strict formats are tried in the listed order: a string that is
\* a valid date both as DD/MM/YYYY and as MM/DD/YYYY is read as DD/MM/YYYY,
\* and the MM/DD/YYYY reading is used only when the DD/MM/YYYY one is not a
\* valid date
SlashedDayMonthYear(input) == input.kind = "string" /\ input.string.sep = "/" /\ input.string.parts[3] >= 1000
DayFirstReading(input) == <<input.string.parts[3], input.string.parts[2], input.string.parts[1]>>
MonthFirstReading(input) == <<input.string.parts[3], input.string.parts[1], input.string.parts[2]>>
IsDate(ymd) == ValidYMD(ymd[1], ymd[2], ymd[3])
C28_DayFirstBeforeMonthFirst ==
  (HelperCalled("parseDateInput") /\ SlashedDayMonthYear(call.args[1])) =>
    /\ IsDate(DayFirstReading(call.args[1])) =>
         (outcome.status = "ok" /\ <<outcome.value.y, outcome.value.m, outcome.value.d>> = DayFirstReading(call.args[1]))
    /\ (~IsDate(DayFirstReading(call.args[1])) /\ IsDate(MonthFirstReading(call.args[1]))) =>
         (outcome.status = "ok" /\ <<outcome.value.y, outcome.value.m, outcome.value.d>> = MonthFirstReading(call.args[1]))
C28_Witness ==
  /\ HelperCalled("parseDateInput") /\ call.args[1] = StringValue(DateString("/", 1, 2, 2024))
  /\ outcome.status = "ok" /\ outcome.value = MkDate(2024, 2, 1)

\* C30: every date, also one before the reference new moon of 2024-01-11,
\* is classified by a lunar age within [0, 29.53) days, to which the phase
\* bands are applied.  LunarAge is that age: the days since the reference
\* new moon modulo 29.53
LunarAge(dt) == (DaysFromKnownNewMoon(dt) * 100) % 2953
C30_MoonPhaseOfLunarAge ==
  HelperCalled("_calculateMoonPhase") => outcome.value.phase = PhaseOfAge(LunarAge(call.args[1]))

====
